---- MODULE Spec2Model ----
(***************************************************************************)
(* IBM Incentive Finder: the header harmonisation and totals of app.py,   *)
(* the main page run (load, search, metrics, reorder, export) and the Map  *)
(* page run (token gate, load, sheet selection, county filter, numeric     *)
(* gate, geocode, geodata gate, render block).                             *)
(*                                                                         *)
(* A text value is a sequence of one-character strings.  A cell is a       *)
(* record [k, s, n]: k is "na" (NaN / pd.NA / None), "str" (s is the       *)
(* text), "num" (n is the number) or "bool" (n is 1 or 0).  A DataFrame is *)
(* [n |-> number of rows, cols |-> sequence of columns]; a column is       *)
(* [name, dtype, vals].  Column labels may repeat, as they can in pandas.  *)
(***************************************************************************)
EXTENDS Integers, Sequences, FiniteSets, TLC

VARIABLES
    hpc, hIn, hOut, hOut2,          \* harmonise_columns: position, argument, results
    page,                           \* the script that runs: "app", "map" or "none"
    pc,                             \* the position of the run in the script
    outcome,                        \* running, ok, exception, error_stop, warning_stop, rendered
    exc,                            \* the exception raised, if any
    message,                        \* none, error (st.error) or warning (st.warning)
    exists, workbook,                   \* the workbook file, and its sheets in order
    DATA, terms, regex_mode,        \* app.py
    filtered, ordered_cols, exported, metric,
    TOKEN, sheet_display, map_df        \* pages/1_Map.py

hvars == <<hpc, hIn, hOut, hOut2>>
appvars == <<DATA, terms, regex_mode, filtered, ordered_cols, exported, metric>>
mapvars == <<TOKEN, sheet_display, map_df>>
runvars == <<page, pc, outcome, exc, message, exists, workbook>>
vars == <<hvars, runvars, appvars, mapvars>>

(***************************************************************************)
(* Bounds of the model.                                                    *)
(***************************************************************************)
MaxRows == 2

(***************************************************************************)
(* Cells and text.                                                         *)
(***************************************************************************)
NA == [k |-> "na", s |-> <<>>, n |-> 0]
Str(s) == [k |-> "str", s |-> s, n |-> 0]
Num(i) == [k |-> "num", s |-> <<>>, n |-> i]
Bool(b) == [k |-> "bool", s |-> <<>>, n |-> IF b THEN 1 ELSE 0]

isna(c) == c.k = "na"
notna(c) == c.k # "na"

\* str.lower() on one character
LowerChar(c) ==
    CASE c = "A" -> "a" [] c = "B" -> "b" [] c = "C" -> "c" [] c = "D" -> "d"
      [] c = "E" -> "e" [] c = "F" -> "f" [] c = "G" -> "g" [] c = "H" -> "h"
      [] c = "I" -> "i" [] c = "J" -> "j" [] c = "K" -> "k" [] c = "L" -> "l"
      [] c = "M" -> "m" [] c = "N" -> "n" [] c = "O" -> "o" [] c = "P" -> "p"
      [] c = "Q" -> "q" [] c = "R" -> "r" [] c = "S" -> "s" [] c = "T" -> "t"
      [] c = "U" -> "u" [] c = "V" -> "v" [] c = "W" -> "w" [] c = "X" -> "x"
      [] c = "Y" -> "y" [] c = "Z" -> "z" [] OTHER -> c

\* str.lower()
Lower(s) == [i \in 1..Len(s) |-> LowerChar(s[i])]

\* Python's  t in cell  on text
Contains(cell, t) ==
    \E i \in 0..(Len(cell) - Len(t)) : SubSeq(cell, i + 1, i + Len(t)) = t

DigitVal(c) ==
    CASE c = "0" -> 0 [] c = "1" -> 1 [] c = "2" -> 2 [] c = "3" -> 3
      [] c = "4" -> 4 [] c = "5" -> 5 [] c = "6" -> 6 [] c = "7" -> 7
      [] c = "8" -> 8 [] c = "9" -> 9 [] OTHER -> -1

IsDigits(s) == Len(s) > 0 /\ \A i \in 1..Len(s) : DigitVal(s[i]) >= 0

RECURSIVE DecimalValue(_)
DecimalValue(s) ==
    IF s = <<>> THEN 0
    ELSE 10 * DecimalValue(SubSeq(s, 1, Len(s) - 1)) + DigitVal(s[Len(s)])

\* Whether pd.to_numeric parses the cell (integer literals, optional sign).
IsNumeric(c) ==
    \/ c.k = "num"
    \/ /\ c.k = "str"
       /\ \/ IsDigits(c.s)
          \/ Len(c.s) > 1 /\ c.s[1] \in {"-", "+"} /\ IsDigits(Tail(c.s))

\* pd.to_numeric(errors="coerce").fillna(0) on one cell
to_numeric_fill0(c) ==
    IF ~IsNumeric(c) THEN 0
    ELSE IF c.k = "num" THEN c.n
    ELSE IF c.s[1] = "-" THEN 0 - DecimalValue(Tail(c.s))
    ELSE IF c.s[1] = "+" THEN DecimalValue(Tail(c.s))
    ELSE DecimalValue(c.s)

(***************************************************************************)
(* DataFrames.                                                             *)
(***************************************************************************)
Column(name, dtype, vals) == [name |-> name, dtype |-> dtype, vals |-> vals]

Names(df) == {df.cols[i].name : i \in DOMAIN df.cols}
Has(df, c) == c \in Names(df)
Positions(df, c) == {i \in DOMAIN df.cols : df.cols[i].name = c}
CountCols(df, c) == Cardinality(Positions(df, c))
FirstPos(df, c) == CHOOSE i \in Positions(df, c) : \A j \in Positions(df, c) : i <= j
\* df[c] for a label held by one column (the first, when the caller has checked)
Col(df, c) == df.cols[FirstPos(df, c)]

RECURSIVE FilterSeq(_, _)
\* the subsequence of s at the positions in keep, in order
FilterSeq(s, keep) ==
    IF s = <<>> THEN <<>>
    ELSE LET rest == FilterSeq(SubSeq(s, 1, Len(s) - 1), keep)
         IN IF Len(s) \in keep THEN Append(rest, s[Len(s)]) ELSE rest

\* df[name] = vals : overwrite the column(s) so labelled, or append a new one
SetCol(df, name, dtype, vals) ==
    IF Has(df, name)
    THEN [df EXCEPT !.cols = [i \in DOMAIN df.cols |->
              IF df.cols[i].name = name THEN Column(name, dtype, vals) ELSE df.cols[i]]]
    ELSE [df EXCEPT !.cols = Append(df.cols, Column(name, dtype, vals))]

\* df.drop(columns=v)
DropCols(df, v) ==
    [df EXCEPT !.cols = FilterSeq(df.cols, {i \in DOMAIN df.cols : df.cols[i].name # v})]

\* df.rename(columns={v: canon})
Rename(df, v, canon) ==
    [df EXCEPT !.cols = [i \in DOMAIN df.cols |->
        IF df.cols[i].name = v THEN [df.cols[i] EXCEPT !.name = canon] ELSE df.cols[i]]]

(***************************************************************************)
(* Header labels.  str.strip() removes the surrounding blanks of a label;  *)
(* the labels with surrounding blanks that the model's sheets use are      *)
(* listed here with what they strip to.                                    *)
(***************************************************************************)
Strip(h) ==
    CASE h = "School PILOT " -> "School PILOT"
      [] h = " Zip " -> "Zip"
      [] OTHER -> h

HEADER_MAP == <<
    [canon |-> "Recipient_Name", variants |-> <<"Recipient", "Company", "Company Name", "Applicant Name">>],
    [canon |-> "Project_Name", variants |-> <<"Project Title", "Name of Project", "Project">>],
    [canon |-> "Industry", variants |-> <<"Industry">>],
    [canon |-> "Municipality", variants |-> <<"City/Town", "Municipality", "Project City", "Recipient City">>],
    [canon |-> "County", variants |-> <<"County", "Project County", "Recipient County">>],
    [canon |-> "Postal_Code", variants |-> <<"Zip", "Zip Code", "Postal Code">>],
    [canon |-> "Authority_Name", variants |-> <<"Lead Agency Name", "Authority Name">>],
    [canon |-> "Program_Name", variants |-> <<"Program through which the funding was awarded">>],
    [canon |-> "Project_ID", variants |-> <<"Project ID", "Record ID", "Project Identifier", "Report Record ID">>],
    [canon |-> "Related_Project_ID", variants |-> <<"Parent Project ID", "Prior Project #", "Related Project Number", "Multi-Phase Project ID">>],
    [canon |-> "Exemption_School", variants |-> <<"School District Exemption", "School Tax Abated">>],
    [canon |-> "Exemption_County", variants |-> <<"County Exemption", "County Tax Abated">>],
    [canon |-> "Exemption_City", variants |-> <<"City/Town Exemption", "City Tax Abated">>],
    [canon |-> "PILOT_School", variants |-> <<"School PILOT Payments Scheduled", "School PILOT">>],
    [canon |-> "PILOT_County", variants |-> <<"County PILOT Payments Scheduled", "County PILOT">>],
    [canon |-> "PILOT_City", variants |-> <<"City PILOT Payments Scheduled", "City PILOT">>],
    [canon |-> "State_Award", variants |-> <<"Assistance Amount", "Tax Credit Amount", "Grant Award", "Capital Grant Amount", "Empire State Jobs Retention Credit">>],
    [canon |-> "Jobs_Plan_Total", variants |-> <<"Jobs Planned", "Jobs to be Created", "Employment Target">>],
    [canon |-> "Jobs_Plan_FTE", variants |-> <<"FTE Planned", "Projected FTEs">>],
    [canon |-> "Jobs_Created_ToDate", variants |-> <<"Jobs Created", "FTEs Reported">>],
    [canon |-> "Construction_Jobs", variants |-> <<"Construction Jobs", "Const Jobs">>],
    [canon |-> "Average_Salary", variants |-> <<"Average Salary", "Avg Annual Wage">>],
    [canon |-> "Board_Approval_Date", variants |-> <<"Board Approval Date", "Date Approved">>],
    [canon |-> "Agreement_Execution_Date", variants |-> <<"Agreement Execution Date">>],
    [canon |-> "Project_Start_Date", variants |-> <<"Project Start Date", "Construction Start">>],
    [canon |-> "Project_Completion_Date", variants |-> <<"Project Completion Date", "Construction Completion">>],
    [canon |-> "Benefit_End_Date", variants |-> <<"Benefit End Date", "Exemption End Date">>],
    [canon |-> "Measurement_Year", variants |-> <<"Fiscal Year", "Reporting Year">>]
>>

money_cols == <<"Exemption_School", "Exemption_County", "Exemption_City",
                "PILOT_School", "PILOT_County", "PILOT_City", "State_Award">>

(***************************************************************************)
(* harmonise_columns.  The function works on a pair [err, df]: err is set  *)
(* when a pandas call raises, and the later steps are then skipped.        *)
(***************************************************************************)
\* df.columns = df.columns.str.strip()
StripHeaders(df) ==
    [df EXCEPT !.cols = [i \in DOMAIN df.cols |->
        [df.cols[i] EXCEPT !.name = Strip(df.cols[i].name)]]]

\* df[canon] = df[canon].fillna(df[v]); df.drop(columns=v, inplace=True)
\*   v = canon            : the fill changes nothing and the drop removes the
\*                          column(s) labelled canon
\*   v labels two columns : Series.fillna(DataFrame) raises TypeError
\*   canon labels two     : DataFrame.fillna(Series) fills by column label,
\*                          which matches no row label, so nothing is filled
CoFill(st, canon, v) ==
    LET df == st.df IN
    IF v = canon THEN [st EXCEPT !.df = DropCols(df, v)]
    ELSE IF CountCols(df, v) > 1 THEN [st EXCEPT !.err = TRUE]
    ELSE IF CountCols(df, canon) > 1 THEN [st EXCEPT !.df = DropCols(df, v)]
    ELSE LET a == Col(df, canon).vals
             b == Col(df, v).vals
             filled == [r \in 1..df.n |-> IF isna(a[r]) THEN b[r] ELSE a[r]]
         IN [st EXCEPT !.df = DropCols(SetCol(df, canon, "object", filled), v)]

\* the body of the inner loop, lines 86-91
RenameOrCoFill(st, canon, v) ==
    IF st.err \/ ~Has(st.df, v) THEN st
    ELSE IF ~Has(st.df, canon) THEN [st EXCEPT !.df = Rename(st.df, v, canon)]
    ELSE CoFill(st, canon, v)

RECURSIVE VariantLoop(_, _, _, _)
\* for v in variants, from the j-th on
VariantLoop(st, canon, variants, j) ==
    IF st.err \/ j > Len(variants) THEN st
    ELSE VariantLoop(RenameOrCoFill(st, canon, variants[j]), canon, variants, j + 1)

RECURSIVE CanonLoop(_, _)
\* for canon, variants in HEADER_MAP.items(), from the i-th on
CanonLoop(st, i) ==
    IF st.err \/ i > Len(HEADER_MAP) THEN st
    ELSE CanonLoop(VariantLoop(st, HEADER_MAP[i].canon, HEADER_MAP[i].variants, 1), i + 1)

AllNA(n) == [r \in 1..n |-> NA]

RECURSIVE EnsureMoney(_, _)
\* 2) for c in money_cols: if c not in df.columns: df[c] = pd.NA
EnsureMoney(df, i) ==
    IF df.n < 0 \/ i > Len(money_cols) THEN df
    ELSE EnsureMoney(IF Has(df, money_cols[i]) THEN df
                     ELSE SetCol(df, money_cols[i], "object", AllNA(df.n)), i + 1)

RECURSIVE SumRow(_, _, _, _)
\* df[labels].apply(pd.to_numeric, errors="coerce").fillna(0).sum(axis=1) at row r:
\* selecting by a list of labels takes every column that carries one of them
SumRow(df, labels, r, i) ==
    IF i > Len(df.cols) THEN 0
    ELSE (IF df.cols[i].name \in labels THEN to_numeric_fill0(df.cols[i].vals[r]) ELSE 0)
         + SumRow(df, labels, r, i + 1)

SumColumns(df, labels) == [r \in 1..df.n |-> Num(SumRow(df, labels, r, 1))]

ExemptionParts == {"Exemption_School", "Exemption_County", "Exemption_City"}
PilotParts == {"PILOT_School", "PILOT_County", "PILOT_City"}

\* line 122
NetIncentive(e, s, p) == e + s - p

\* 3) Derive totals & net incentive; pd.to_numeric of df["State_Award"] raises
\* TypeError when two columns carry that label (the selection is a DataFrame)
DeriveTotals(st) ==
    IF st.err THEN st
    ELSE LET d1 == SetCol(st.df, "Exemption_Total", "float64", SumColumns(st.df, ExemptionParts))
             d2 == SetCol(d1, "PILOT_Total", "float64", SumColumns(d1, PilotParts))
         IN IF CountCols(d2, "State_Award") > 1 THEN [st EXCEPT !.err = TRUE]
            ELSE LET sa == Col(d2, "State_Award").vals
                     d3 == SetCol(d2, "State_Award_Total", "float64",
                                  [r \in 1..d2.n |-> Num(to_numeric_fill0(sa[r]))])
                     et == Col(d3, "Exemption_Total").vals
                     pt == Col(d3, "PILOT_Total").vals
                     sat == Col(d3, "State_Award_Total").vals
                 IN [st EXCEPT !.df = SetCol(d3, "Total_Incentive", "float64",
                        [r \in 1..d3.n |-> Num(NetIncentive(et[r].n, sat[r].n, pt[r].n))])]

\* 4) Multi-phase flag; assigning a two-column notna() frame to one label raises
MultiPhase(st) ==
    IF st.err THEN st
    ELSE LET d1 == IF Has(st.df, "Related_Project_ID") THEN st.df
                   ELSE SetCol(st.df, "Related_Project_ID", "object", AllNA(st.df.n))
         IN IF CountCols(d1, "Related_Project_ID") > 1 THEN [st EXCEPT !.err = TRUE]
            ELSE LET rp == Col(d1, "Related_Project_ID").vals
                 IN [st EXCEPT !.df = SetCol(d1, "Is_MultiPhase", "bool",
                        [r \in 1..d1.n |-> Bool(notna(rp[r]))])]

\* df.dropna(axis=1, how="all"): a column stays when some cell of it is not null
DropEmptyColumns(df) ==
    [df EXCEPT !.cols = FilterSeq(df.cols,
        {i \in DOMAIN df.cols : \E r \in 1..df.n : notna(df.cols[i].vals[r])})]

\* df.loc[:, ~df.columns.duplicated()]: the first column of each label stays
DropDuplicateColumns(df) ==
    [df EXCEPT !.cols = FilterSeq(df.cols,
        {i \in DOMAIN df.cols : \A j \in 1..(i - 1) : df.cols[j].name # df.cols[i].name})]

\* 5) Drop completely empty columns & duplicates
DropEmptyAndDuplicates(st) ==
    IF st.err THEN st
    ELSE [st EXCEPT !.df = DropDuplicateColumns(DropEmptyColumns(st.df))]

harmonise_columns(df) ==
    LET s0 == [err |-> FALSE, df |-> StripHeaders(df)]
        s1 == CanonLoop(s0, 1)
        s2 == IF s1.err THEN s1 ELSE [s1 EXCEPT !.df = EnsureMoney(s1.df, 1)]
    IN DropEmptyAndDuplicates(MultiPhase(DeriveTotals(s2)))

(***************************************************************************)
(* Sheets for harmonise_columns: every table over one of the label lists   *)
(* below with at most MaxRows rows, the cells of a column drawn from the   *)
(* values of its kind.  read_excel(dtype=str) yields text or NaN.          *)
(***************************************************************************)
HShapes == {
    <<>>,
    <<"Industry">>,
    <<"Project County">>,
    <<"County", "Project County">>,
    <<"City/Town">>,
    <<" Zip ", "Postal Code">>,
    <<"Recipient", "Company">>,
    <<"Recipient_Name", "Applicant Name">>,
    <<"School District Exemption", "School Tax Abated">>,
    <<"School PILOT", "School PILOT ">>,
    <<"County Exemption", "City PILOT", "Grant Award">>,
    <<"Parent Project ID", "Notes">> }

MoneyLabels == {"School District Exemption", "School Tax Abated", "School PILOT",
                "School PILOT ", "County Exemption", "City PILOT", "Grant Award"}

TextValues == {NA, Str(<<"a">>), Str(<<"b">>)}
MoneyValues == {NA, Str(<<"5">>), Str(<<"1", "2">>), Str(<<"-", "3">>), Str(<<"x">>)}
ValuesOf(label) == IF label \in MoneyLabels THEN MoneyValues ELSE TextValues

RECURSIVE ColumnsOver(_, _)
\* every list of columns labelled by shape with n rows
ColumnsOver(shape, n) ==
    IF shape = <<>> THEN {<<>>}
    ELSE LET last == shape[Len(shape)]
         IN {Append(p, Column(last, "object", v)) :
                p \in ColumnsOver(SubSeq(shape, 1, Len(shape) - 1), n),
                v \in [1..n -> ValuesOf(last)]}

\* every table over one of the shapes with at most maxrows rows
TablesOver(shapes, maxrows) ==
    UNION {{[n |-> n, cols |-> c] : c \in ColumnsOver(shape, n)} :
              shape \in shapes, n \in 0..maxrows}

NoFrame == [err |-> FALSE, df |-> [n |-> 0, cols |-> <<>>]]

HIdle ==
    /\ hpc = "none"
    /\ hIn = [n |-> 0, cols |-> <<>>]
    /\ hOut = NoFrame
    /\ hOut2 = NoFrame

AppIdle ==
    /\ DATA = [n |-> 0, cols |-> <<>>]
    /\ terms = <<>>
    /\ regex_mode = FALSE
    /\ filtered = [n |-> 0, cols |-> <<>>]
    /\ ordered_cols = <<>>
    /\ exported = [n |-> 0, cols |-> <<>>]
    /\ metric = [rows |-> 0, total |-> 0]

MapIdle ==
    /\ TOKEN = [set |-> FALSE, s |-> <<>>]
    /\ sheet_display = 0
    /\ map_df = [n |-> 0, cols |-> <<>>]

RunIdle ==
    /\ page = "none"
    /\ pc = "none"
    /\ outcome = "running"
    /\ exc = "none"
    /\ message = "none"
    /\ exists = FALSE
    /\ workbook = <<>>

HInit ==
    /\ hpc = "in"
    /\ hIn \in TablesOver(HShapes, MaxRows)
    /\ hOut = NoFrame
    /\ hOut2 = NoFrame
    /\ RunIdle /\ AppIdle /\ MapIdle

\* harmonise_columns(df)
HarmoniseOnce ==
    /\ hpc = "in"
    /\ hOut' = harmonise_columns(hIn)
    /\ hpc' = "once"
    /\ UNCHANGED <<hIn, hOut2, runvars, appvars, mapvars>>

\* harmonise_columns(harmonise_columns(df))
HarmoniseTwice ==
    /\ hpc = "once"
    /\ ~hOut.err
    /\ hOut2' = harmonise_columns(hOut.df)
    /\ hpc' = "twice"
    /\ UNCHANGED <<hIn, hOut, runvars, appvars, mapvars>>

HNext == HarmoniseOnce \/ HarmoniseTwice

HSpec == HInit /\ [][HNext]_vars

(***************************************************************************)
(* Claims about harmonise_columns (checked under HSpec).                   *)
(***************************************************************************)
SourceLabels(i) ==
    {HEADER_MAP[i].canon} \cup {HEADER_MAP[i].variants[j] : j \in DOMAIN HEADER_MAP[i].variants}

\* the non-null values that the source columns of field i hold in row r
SourceValues(df, i, r) ==
    {df.cols[j].vals[r] : j \in {k \in DOMAIN df.cols :
        Strip(df.cols[k].name) \in SourceLabels(i) /\ notna(df.cols[k].vals[r])}}

\* C1: harmonise_columns loses no non-null value: whenever a source column of
\* a logical field (canonical name or variant, after stripping) holds a
\* non-null value in a row, the result has the canonical column and its cell
\* in that row is one of those source values.
C1_NoNonNullLost ==
    hpc # "in" =>
        \A i \in DOMAIN HEADER_MAP : \A r \in 1..hIn.n :
            SourceValues(hIn, i, r) # {} =>
                /\ ~hOut.err
                /\ Has(hOut.df, HEADER_MAP[i].canon)
                /\ Col(hOut.df, HEADER_MAP[i].canon).vals[r] \in SourceValues(hIn, i, r)

SameFrame(a, b) ==
    /\ a.n = b.n
    /\ Names(a) = Names(b)
    /\ \A c \in Names(a) : Col(a, c).vals = Col(b, c).vals

\* C2: renaming is idempotent: a second pass of harmonise_columns returns the
\* same column names and the same cell values as the first, derived columns
\* included.
C2_Idempotent ==
    hpc = "twice" => ~hOut2.err /\ SameFrame(hOut.df, hOut2.df)

\* the amount a component contributes in row r of a returned table
Part(df, c, r) == IF Has(df, c) THEN to_numeric_fill0(Col(df, c).vals[r]) ELSE 0

\* C8: in every row of a returned table Total_Incentive = Exemption_Total +
\* State_Award_Total - PILOT_Total, Exemption_Total and PILOT_Total are the
\* sums of their three components and State_Award_Total is State_Award, a
\* missing, null or non-numeric component counting as 0.
C8_TotalsFormula ==
    (hpc # "in" /\ ~hOut.err) =>
        \A r \in 1..hOut.df.n :
            LET d == hOut.df
                T(c) == Col(d, c).vals[r].n
            IN /\ {"Exemption_Total", "PILOT_Total", "State_Award_Total", "Total_Incentive"}
                      \subseteq Names(d)
               /\ T("Exemption_Total") = Part(d, "Exemption_School", r)
                      + Part(d, "Exemption_County", r) + Part(d, "Exemption_City", r)
               /\ T("PILOT_Total") = Part(d, "PILOT_School", r)
                      + Part(d, "PILOT_County", r) + Part(d, "PILOT_City", r)
               /\ T("State_Award_Total") = Part(d, "State_Award", r)
               /\ T("Total_Incentive") =
                      T("Exemption_Total") + T("State_Award_Total") - T("PILOT_Total")

(***************************************************************************)
(* app.py: load_data, search_records, column order, export.                *)
(***************************************************************************)
EmptyFrame == [n |-> 0, cols |-> <<>>]

\* df["Source_Sheet"] = sheet
AddSourceSheet(df, sheet) ==
    SetCol(df, "Source_Sheet", "object", [r \in 1..df.n |-> Str(sheet)])

RECURSIVE LoadFrames(_, _, _)
\* the loop of load_data over xls.sheet_names, from the i-th sheet on
LoadFrames(acc, book, i) ==
    IF acc.err \/ i > Len(book) THEN acc
    ELSE LET h == harmonise_columns(AddSourceSheet(book[i].df, book[i].name))
         IN LoadFrames([err |-> h.err, frames |-> Append(acc.frames, h.df)], book, i + 1)

\* the dtype pd.concat gives a column of a and b; a frame without rows takes
\* no part in it
ConcatDtype(a, b, c) ==
    IF Has(a, c) /\ Has(b, c)
    THEN (IF Col(a, c).dtype = Col(b, c).dtype THEN Col(a, c).dtype ELSE "object")
    ELSE LET have == IF Has(a, c) THEN a ELSE b
             lack == IF Has(a, c) THEN b ELSE a
             d == Col(have, c).dtype
         IN IF lack.n = 0 \/ d = "float64" THEN d ELSE "object"

ColumnOrNA(df, c) == IF Has(df, c) THEN Col(df, c).vals ELSE AllNA(df.n)

\* pd.concat([a, b], ignore_index=True): the union of the columns in order of
\* first appearance, the rows of a then those of b, NaN where a frame lacks
\* the column
Concat2(a, b) ==
    LET extra == FilterSeq(b.cols, {i \in DOMAIN b.cols : ~Has(a, b.cols[i].name)})
        labels == [i \in 1..(Len(a.cols) + Len(extra)) |->
                      IF i <= Len(a.cols) THEN a.cols[i].name
                      ELSE extra[i - Len(a.cols)].name]
    IN [n |-> a.n + b.n,
        cols |-> [i \in DOMAIN labels |->
            Column(labels[i], ConcatDtype(a, b, labels[i]),
                   ColumnOrNA(a, labels[i]) \o ColumnOrNA(b, labels[i]))]]

RECURSIVE ConcatFrom(_, _, _)
ConcatFrom(acc, frames, i) ==
    IF acc.n < 0 \/ i > Len(frames) THEN acc
    ELSE ConcatFrom(Concat2(acc, frames[i]), frames, i + 1)

\* pd.concat(frames, ignore_index=True)
concat(frames) == ConcatFrom(frames[1], frames, 2)

\* load_data(path) for a workbook that exists
load_data(book) ==
    LET l == LoadFrames([err |-> FALSE, frames |-> <<>>], book, 1)
    IN IF l.err THEN [err |-> TRUE, df |-> EmptyFrame]
       ELSE [err |-> FALSE, df |-> concat(l.frames)]

DEFAULT_TERMS == <<
    <<"I", "B", "M">>,
    <<"I", "n", "t", "e", "r", "n", "a", "t", "i", "o", "n", "a", "l", " ",
      "B", "u", "s", "i", "n", "e", "s", "s", " ",
      "M", "a", "c", "h", "i", "n", "e", "s">> >>

RECURSIVE StripText(_)
\* str.strip() on text
StripText(s) ==
    IF s = <<>> THEN s
    ELSE IF Head(s) = " " THEN StripText(Tail(s))
    ELSE IF s[Len(s)] = " " THEN StripText(SubSeq(s, 1, Len(s) - 1))
    ELSE s

\* df.select_dtypes(include="object").columns, as positions
obj_cols(df) == {i \in DOMAIN df.cols : df.cols[i].dtype = "object"}

\* s.str.lower().fillna("") on one cell
LowerOrEmpty(c) == IF c.k = "str" THEN Lower(c.s) ELSE <<>>

\* terms_lower = [t.lower() for t in tms]
terms_lower(tms) == [i \in DOMAIN tms |-> Lower(tms[i])]

\* any(t in cell for t in terms_lower) with the cell not lower-cased
PlainCellMatchCased(c, tms) ==
    \E i \in DOMAIN tms :
        Contains(IF c.k = "str" THEN c.s ELSE <<>>, terms_lower(tms)[i])

\* any(t in cell for t in terms_lower)
PlainCellMatch(c, tms) ==
    \E i \in DOMAIN tms : Contains(LowerOrEmpty(c), terms_lower(tms)[i])

RECURSIVE ParenDepthOk(_, _)
\* re.compile accepts the term: its parentheses balance (tms are written
\* over letters, digits, blanks, "." and parentheses)
ParenDepthOk(t, depth) ==
    IF t = <<>> THEN depth = 0
    ELSE IF Head(t) = "(" THEN ParenDepthOk(Tail(t), depth + 1)
    ELSE IF Head(t) = ")" THEN depth > 0 /\ ParenDepthOk(Tail(t), depth - 1)
    ELSE ParenDepthOk(Tail(t), depth)

\* pattern = "|".join(tms) compiles
PatternValid(tms) == \A i \in DOMAIN tms : ParenDepthOk(tms[i], 0)

\* a group without alternation matches what its content matches
Ungroup(t) == FilterSeq(t, {i \in DOMAIN t : t[i] \notin {"(", ")"}})

\* re.search(term, text, re.IGNORECASE): "." matches any character
RegexSearch(term, text) ==
    LET u == Ungroup(term) IN
    \E i \in 0..(Len(text) - Len(u)) :
        \A j \in 1..Len(u) : u[j] = "." \/ LowerChar(u[j]) = LowerChar(text[i + j])

\* s.str.contains(pattern, case=False, na=False, regex=True) on one cell
RegexCellMatch(c, tms) ==
    c.k = "str" /\ \E i \in DOMAIN tms : RegexSearch(tms[i], c.s)

\* the boolean mask .any(axis=1), as the set of rows it selects
Mask(df, tms, regex) ==
    {r \in 1..df.n : \E i \in obj_cols(df) :
        IF regex THEN RegexCellMatch(df.cols[i].vals[r], tms)
        ELSE PlainCellMatch(df.cols[i].vals[r], tms)}

\* df[mask] taken from the lower-cased copy of the frame
BoolIndexLowered(df, mask) ==
    [n |-> Cardinality(mask \cap (1..df.n)),
     cols |-> [i \in DOMAIN df.cols |->
                  [df.cols[i] EXCEPT !.vals = FilterSeq(
                      [r \in 1..df.n |-> IF df.cols[i].vals[r].k = "str"
                                         THEN Str(Lower(df.cols[i].vals[r].s))
                                         ELSE df.cols[i].vals[r]], mask)]]]

\* df[mask]
BoolIndex(df, mask) ==
    [n |-> Cardinality(mask \cap (1..df.n)),
     cols |-> [i \in DOMAIN df.cols |->
                  [df.cols[i] EXCEPT !.vals = FilterSeq(df.cols[i].vals, mask)]]]

\* search_records(df, tms, regex); err: re.error from str.contains.  With no
\* object column, apply() never calls the lambda and nothing is compiled.
search_records(df, tms, regex) ==
    IF tms = <<>> THEN [err |-> FALSE, df |-> BoolIndex(df, {})]
    ELSE IF regex /\ obj_cols(df) # {} /\ ~PatternValid(tms)
         THEN [err |-> TRUE, df |-> EmptyFrame]
    ELSE [err |-> FALSE, df |-> BoolIndex(df, Mask(df, tms, regex))]

PREFERRED_ORDER == <<
    "Source_Sheet", "Authority_Name", "Program_Name",
    "Project_ID", "Related_Project_ID", "Is_MultiPhase",
    "Project_Name", "Industry", "Municipality", "County", "Postal_Code",
    "Exemption_School", "Exemption_County", "Exemption_City", "Exemption_Total",
    "PILOT_School", "PILOT_County", "PILOT_City", "PILOT_Total",
    "State_Award_Total", "Total_Incentive",
    "Jobs_Plan_Total", "Jobs_Plan_FTE", "Jobs_Created_ToDate",
    "Construction_Jobs", "Average_Salary",
    "Board_Approval_Date", "Agreement_Execution_Date", "Project_Start_Date",
    "Project_Completion_Date", "Benefit_End_Date", "Measurement_Year" >>

Preferred == {PREFERRED_ORDER[i] : i \in DOMAIN PREFERRED_ORDER}

ColumnLabels(df) == [i \in DOMAIN df.cols |-> df.cols[i].name]

\* [c for c in PREFERRED_ORDER if c in filtered.columns] alone
OrderedColsPreferredOnly(df) ==
    FilterSeq(PREFERRED_ORDER, {i \in DOMAIN PREFERRED_ORDER : Has(df, PREFERRED_ORDER[i])})

\* [c for c in PREFERRED_ORDER if c in filtered.columns]
\*   + [c for c in filtered.columns if c not in PREFERRED_ORDER]
OrderedCols(df) ==
    FilterSeq(PREFERRED_ORDER, {i \in DOMAIN PREFERRED_ORDER : Has(df, PREFERRED_ORDER[i])})
    \o FilterSeq(ColumnLabels(df), {i \in DOMAIN df.cols : df.cols[i].name \notin Preferred})

\* filtered[ordered_cols]
SelectCols(df, labels) ==
    [n |-> df.n, cols |-> [i \in DOMAIN labels |-> Col(df, labels[i])]]

RECURSIVE SumNums(_)
\* Series.sum() of a float column
SumNums(vals) ==
    IF vals = <<>> THEN 0 ELSE vals[Len(vals)].n + SumNums(SubSeq(vals, 1, Len(vals) - 1))

(***************************************************************************)
(* pages/1_Map.py and core.py.                                             *)
(***************************************************************************)
NoToken == [set |-> FALSE, s |-> <<>>]
Token(s) == [set |-> TRUE, s |-> s]

\* TOKEN.startswith("pk.")
StartsWithPk(s) == Len(s) >= 3 /\ SubSeq(s, 1, 3) = <<"p", "k", ".">>

\* not (not TOKEN or not TOKEN.startswith("pk."))
TokenOk(t) == t.set /\ t.s # <<>> /\ StartsWithPk(t.s)

RECURSIVE MapConcat(_, _, _)
MapConcat(acc, sheets, i) ==
    IF acc.n < 0 \/ i > Len(sheets) THEN acc
    ELSE MapConcat(Concat2(acc, sheets[i].df), sheets, i + 1)

\* pd.concat(DATA.values(), keys=RAW_NAMES, names=["Source_Sheet"])
\*   .reset_index(drop=True): RAW_NAMES holds at most two names and pandas 2
\* pairs keys with frames, so frames beyond the keys take no part
ConcatKeyed(sheets) ==
    LET k == IF Len(sheets) < 2 THEN Len(sheets) ELSE 2
    IN MapConcat(sheets[1].df, SubSeq(sheets, 1, k), 2)

\* sorted(df["County"].dropna().unique()), as a set
county_opts(d) ==
    {Col(d, "County").vals[r].s : r \in {q \in 1..d.n : notna(Col(d, "County").vals[q])}}

\* df[df["County"].isin(sel)]
CountyFilter(d, chosen) ==
    BoolIndex(d, {r \in 1..d.n :
        notna(Col(d, "County").vals[r]) /\ Col(d, "County").vals[r].s \in chosen})

\* "Total NYS Investment" if that is a column, else "Total Exemptions"
num_col(d) ==
    IF Has(d, "Total NYS Investment") THEN "Total NYS Investment" ELSE "Total Exemptions"

\* the whole part of the square root
ISqrt(v) == CHOOSE k \in 0..v : k * k <= v /\ (k + 1) * (k + 1) > v

\* (df["$"] ** 0.5).clip(lower=3) * 2000, in whole metres; NaN for a negative $
Radius(v) ==
    IF v < 0 THEN NA ELSE Num((IF ISqrt(v) < 3 THEN 3 ELSE ISqrt(v)) * 2000)

\* lines 51-53
AddDollarColumns(d) ==
    LET dollars == [r \in 1..d.n |-> Num(to_numeric_fill0(Col(d, num_col(d)).vals[r]))]
        d1 == SetCol(d, "$", "float64", dollars)
    IN SetCol(d1, "_radius", "float64", [r \in 1..d.n |-> Radius(dollars[r].n)])

zip_candidates == <<"Project Postal Code", "Postal Code", "ZIP", "Zip Code", "Zip">>

ZipPositions(d) == {i \in DOMAIN zip_candidates : Has(d, zip_candidates[i])}

\* next((c for c in zip_candidates if c in df.columns), None) found a column
HasZipCol(d) == ZipPositions(d) # {}

zip_col(d) ==
    zip_candidates[CHOOSE i \in ZipPositions(d) : \A j \in ZipPositions(d) : i <= j]

RECURSIVE zfill(_, _)
\* Series.str.zfill(width): "0" is put in front until the text has the width
zfill(s, width) == IF Len(s) >= width THEN s ELSE zfill(<<"0">> \o s, width)

\* lut: coordinates in units of 0.0001 degree; none for a code not listed
lut(code) ==
    IF code = <<"1", "0", "0", "0", "1">> THEN [hit |-> TRUE, lat |-> 407506, lon |-> -739972]
    ELSE IF code = <<"1", "4", "6", "0", "4">> THEN [hit |-> TRUE, lat |-> 431566, lon |-> -776088]
    ELSE IF code = <<"1", "2", "2", "0", "7">> THEN [hit |-> TRUE, lat |-> 426512, lon |-> -737540]
    ELSE [hit |-> FALSE, lat |-> 0, lon |-> 0]

county_lut(county) ==
    IF county = <<"A", "l", "b", "a", "n", "y">> THEN [hit |-> TRUE, lat |-> 426526, lon |-> -737562]
    ELSE IF county = <<"D", "u", "t", "c", "h", "e", "s", "s">> THEN [hit |-> TRUE, lat |-> 417784, lon |-> -737471]
    ELSE IF county = <<"W", "e", "s", "t", "c", "h", "e", "s", "t", "e", "r">> THEN [hit |-> TRUE, lat |-> 411220, lon |-> -737949]
    ELSE [hit |-> FALSE, lat |-> 0, lon |-> 0]

\* the coordinates .map() gives one cell
CoordsOf(d, c) ==
    IF isna(c) THEN [hit |-> FALSE, lat |-> 0, lon |-> 0]
    ELSE IF HasZipCol(d) THEN lut(zfill(c.s, 5))
    ELSE county_lut(c.s)

\* lines 59-76 for a frame that has the column geocoded from
Geocoded(d) ==
    LET src == Col(d, IF HasZipCol(d) THEN zip_col(d) ELSE "County").vals
        d1 == SetCol(d, "lat", "float64", [r \in 1..d.n |->
                 IF CoordsOf(d, src[r]).hit THEN Num(CoordsOf(d, src[r]).lat) ELSE NA])
    IN SetCol(d1, "lon", "float64", [r \in 1..d.n |->
                 IF CoordsOf(d, src[r]).hit THEN Num(CoordsOf(d, src[r]).lon) ELSE NA])

\* df.dropna(subset=["lat", "lon"])
DropNoGeo(d) ==
    BoolIndex(d, {r \in 1..d.n :
        notna(Col(d, "lat").vals[r]) /\ notna(Col(d, "lon").vals[r])})

\* the replacement fields of the tooltip template of line 97, in order, and
\* the arguments format() is called with
TooltipFields == <<"Project Name", "${0">>
FormatArgCount == 1
FormatKeywords == {}

\* str.format finds field f: an index below the number of positional
\* arguments, or a keyword that was passed
FieldResolves(f) ==
    IF f \in {"0", "1", "2", "3", "4", "5", "6", "7", "8", "9"}
    THEN (CHOOSE i \in 0..9 : f = ToString(i)) < FormatArgCount
    ELSE f \in FormatKeywords

\* "...".format("$") returns instead of raising KeyError
tooltip_formats == \A i \in DOMAIN TooltipFields : FieldResolves(TooltipFields[i])

(***************************************************************************)
(* A run of a page.  Streamlit runs the page's script from the top; an     *)
(* exception that is not caught ends the run, and so does st.stop().       *)
(***************************************************************************)
MaxSheets == 2

T(s) == Str(s)
Sheet(name, labels, rows) ==
    [name |-> name,
     df |-> [n |-> Len(rows),
             cols |-> [i \in DOMAIN labels |->
                 Column(labels[i], "object", [r \in DOMAIN rows |-> rows[r][i]])]]]

\* sheets of the workbook of app.py (read with dtype=str)
AppSheets == {
    Sheet(<<"E", "S", "D">>, <<"Company Name", "Project County", "Assistance Amount">>,
          << <<T(<<"I", "B", "M", " ", "C", "o", "r", "p">>), T(<<"A", "l", "b", "a", "n", "y">>), T(<<"5">>)>>,
             <<T(<<"A", "c", "m", "e">>), NA, T(<<"7">>)>> >>),
    Sheet(<<"I", "D", "A">>, <<"Applicant Name", "School PILOT", "Notes">>,
          << <<T(<<"G", "l", "o", "b", "e", "x">>), T(<<"1", "2">>), T(<<"f", "o", "r", " ", "i", "b", "m">>)>>,
             <<T(<<"I", "n", "i", "t", "e", "c", "h">>), NA, NA>> >>),
    Sheet(<<"N", "e", "w">>, <<"Recipient", "Industry">>, <<>>),
    Sheet(<<"M", "i", "s", "c">>, <<"Recipient", "Industry">>,
          << <<T(<<"H", "o", "o", "l", "i">>), T(<<"a", "c", "m", "e", " ", "t", "o", "o", "l", "s">>)>> >>) }

\* sheets of the workbook of the Map page
MapSheets == {
    Sheet(<<"E", "S", "D">>, <<"Project Name", "County", "Total NYS Investment">>,
          << <<T(<<"F", "a", "b">>), T(<<"A", "l", "b", "a", "n", "y">>), T(<<"1", "0", "0">>)>>,
             <<T(<<"L", "a", "b">>), T(<<"E", "r", "i", "e">>), T(<<"4">>)>>,
             <<T(<<"P", "a", "d">>), NA, T(<<"x">>)>> >>),
    Sheet(<<"I", "D", "A">>, <<"Project Name", "Zip", "Total Exemptions">>,
          << <<T(<<"S", "i", "t", "e">>), T(<<"1", "0", "0", "0", "1">>), T(<<"9">>)>>,
             <<T(<<"M", "i", "l", "l">>), T(<<"5", "0", "1">>), T(<<"-", "3">>)>> >>),
    Sheet(<<"A", "u", "x">>, <<"Project Name", "Total Exemptions">>,
          << <<T(<<"D", "e", "p", "o", "t">>), T(<<"7">>)>> >>),
    Sheet(<<"H", "u", "b">>, <<"Project Name", "County">>,
          << <<T(<<"Y", "a", "r", "d">>), T(<<"D", "u", "t", "c", "h", "e", "s", "s">>)>> >>),
    Sheet(<<"N", "e", "w">>, <<"County", "Total Exemptions">>, <<>>) }

\* a workbook: up to MaxSheets sheets with different names
Workbooks(pool) ==
    {b \in UNION {[1..k -> pool] : k \in 1..MaxSheets} :
        \A i, j \in DOMAIN b : i # j => b[i].name # b[j].name}

\* what the user may type into "Add term"
NewTermInputs == {<<>>, <<" ">>, <<" ", "a", "c", "m", "e", " ">>, <<"i", "b", "m">>,
                  <<"0">>, <<"I", ".", "M">>, <<"(">>}

\* what MAPBOX_TOKEN may hold
TokenValues == {NoToken, Token(<<>>), Token(<<"p", "k">>),
                Token(<<"s", "k", ".", "a">>), Token(<<"p", "k", ".", "a">>)}

AppInit ==
    /\ page = "app"
    /\ pc = "load"
    /\ outcome = "running" /\ exc = "none" /\ message = "none"
    /\ \/ exists = FALSE /\ workbook = <<>>
       \/ exists = TRUE /\ workbook \in Workbooks(AppSheets)
    /\ HIdle /\ AppIdle /\ MapIdle

MapInit ==
    /\ page = "map"
    /\ pc = "token"
    /\ outcome = "running" /\ exc = "none" /\ message = "none"
    /\ \/ exists = FALSE /\ workbook = <<>>
       \/ exists = TRUE /\ workbook \in Workbooks(MapSheets)
    /\ TOKEN \in TokenValues
    /\ sheet_display = 0
    /\ map_df = [n |-> 0, cols |-> <<>>]
    /\ HIdle /\ AppIdle

Init == AppInit \/ MapInit

Raise(e) == pc' = "done" /\ outcome' = "exception" /\ exc' = e /\ message' = message

\* st.error / st.warning followed by st.stop()
Stop(kind) ==
    /\ pc' = "done" /\ message' = kind /\ exc' = exc
    /\ outcome' = IF kind = "error" THEN "error_stop" ELSE "warning_stop"

Goto(l) == pc' = l /\ UNCHANGED <<outcome, exc, message>>

\* app.py 205-206: DATA = load_data(WORKBOOK)
AppLoad ==
    /\ page = "app" /\ pc = "load"
    /\ IF ~exists THEN Raise("FileNotFoundError") /\ UNCHANGED DATA
       ELSE LET l == load_data(workbook)
            IN IF l.err THEN Raise("TypeError") /\ UNCHANGED DATA
               ELSE DATA' = l.df /\ Goto("sidebar")
    /\ UNCHANGED <<hvars, page, exists, workbook, terms, regex_mode, filtered,
                   ordered_cols, exported, metric, mapvars>>

\* app.py 211-216: the sidebar
Sidebar ==
    /\ page = "app" /\ pc = "sidebar"
    /\ \E picked \in SUBSET DOMAIN DEFAULT_TERMS, typed \in NewTermInputs, rx \in BOOLEAN :
          LET new_term == StripText(typed)
              chosen == FilterSeq(DEFAULT_TERMS, picked)
          IN /\ terms' = IF new_term # <<>> THEN Append(chosen, new_term) ELSE chosen
             /\ regex_mode' = rx
    /\ Goto("filter")
    /\ UNCHANGED <<hvars, page, exists, workbook, DATA, filtered, ordered_cols,
                   exported, metric, mapvars>>

\* app.py 221: filtered = search_records(DATA, terms, regex_mode)
Filter ==
    /\ page = "app" /\ pc = "filter"
    /\ LET f == search_records(DATA, terms, regex_mode)
       IN IF f.err THEN Raise("re.error") /\ UNCHANGED filtered
          ELSE filtered' = f.df /\ Goto("metrics")
    /\ UNCHANGED <<hvars, page, exists, workbook, DATA, terms, regex_mode,
                   ordered_cols, exported, metric, mapvars>>

\* app.py 226-228: the two metrics
Metrics ==
    /\ page = "app" /\ pc = "metrics"
    /\ IF ~Has(filtered, "Total_Incentive") THEN Raise("KeyError") /\ UNCHANGED metric
       ELSE /\ metric' = [rows |-> filtered.n,
                          total |-> SumNums(Col(filtered, "Total_Incentive").vals)]
            /\ Goto("reorder")
    /\ UNCHANGED <<hvars, page, exists, workbook, DATA, terms, regex_mode, filtered,
                   ordered_cols, exported, mapvars>>

\* app.py 233-237: ordered_cols and the table shown
Reorder ==
    /\ page = "app" /\ pc = "reorder"
    /\ ordered_cols' = OrderedCols(filtered)
    /\ Goto("download")
    /\ UNCHANGED <<hvars, page, exists, workbook, DATA, terms, regex_mode, filtered,
                   exported, metric, mapvars>>

\* app.py 242-247: to_excel_bytes(filtered[ordered_cols])
Download ==
    /\ page = "app" /\ pc = "download"
    /\ exported' = SelectCols(filtered, ordered_cols)
    /\ pc' = "done" /\ outcome' = "ok" /\ UNCHANGED <<exc, message>>
    /\ UNCHANGED <<hvars, page, exists, workbook, DATA, terms, regex_mode, filtered,
                   ordered_cols, metric, mapvars>>

\* 1_Map.py 10-15: the token gate
TokenGate ==
    /\ page = "map" /\ pc = "token"
    /\ IF TokenOk(TOKEN) THEN Goto("load") ELSE Stop("error")
    /\ UNCHANGED <<hvars, page, exists, workbook, appvars, mapvars>>

\* 1_Map.py 21: DATA = load_data() of core.py
MapLoad ==
    /\ page = "map" /\ pc = "load"
    /\ IF exists THEN Goto("sheet") ELSE Raise("FileNotFoundError")
    /\ UNCHANGED <<hvars, page, exists, workbook, appvars, mapvars>>

\* 1_Map.py 22-35: the sheet radio; RAW_NAMES[1] of a one-sheet workbook raises
SelectSheet ==
    /\ page = "map" /\ pc = "sheet"
    /\ \E choice \in 1..3 :
          /\ sheet_display' = choice
          /\ IF choice = 2 /\ Len(workbook) < 2 THEN Raise("IndexError") /\ UNCHANGED map_df
             ELSE /\ map_df' = IF choice = 3 THEN ConcatKeyed(workbook) ELSE workbook[choice].df
                  /\ Goto("county")
    /\ UNCHANGED <<hvars, page, exists, workbook, appvars, TOKEN>>

\* 1_Map.py 38-41: the county multiselect
CountySelect ==
    /\ page = "map" /\ pc = "county"
    /\ IF Has(map_df, "County")
       THEN \E chosen \in SUBSET county_opts(map_df) : map_df' = CountyFilter(map_df, chosen)
       ELSE UNCHANGED map_df
    /\ Goto("numeric")
    /\ UNCHANGED <<hvars, page, exists, workbook, appvars, TOKEN, sheet_display>>

\* 1_Map.py 44-53: the numeric column gate
NumericGate ==
    /\ page = "map" /\ pc = "numeric"
    /\ IF ~Has(map_df, num_col(map_df)) THEN Stop("warning") /\ UNCHANGED map_df
       ELSE map_df' = AddDollarColumns(map_df) /\ Goto("geocode")
    /\ UNCHANGED <<hvars, page, exists, workbook, appvars, TOKEN, sheet_display>>

\* 1_Map.py 56-78: geocode and drop the rows without coordinates
Geocode ==
    /\ page = "map" /\ pc = "geocode"
    /\ IF ~HasZipCol(map_df) /\ ~Has(map_df, "County") THEN Raise("KeyError") /\ UNCHANGED map_df
       ELSE map_df' = DropNoGeo(Geocoded(map_df)) /\ Goto("geodata")
    /\ UNCHANGED <<hvars, page, exists, workbook, appvars, TOKEN, sheet_display>>

\* the geodata gate with the emptiness test lost
GeoGateAlwaysPasses(d) == d.n >= 0

\* not df.empty
GeoGatePasses(d) == d.n > 0 /\ Len(d.cols) > 0

\* 1_Map.py 79-81: the geodata gate
GeoGate ==
    /\ page = "map" /\ pc = "geodata"
    /\ IF GeoGatePasses(map_df) THEN Goto("render") ELSE Stop("warning")
    /\ UNCHANGED <<hvars, page, exists, workbook, appvars, mapvars>>

\* 1_Map.py 83-107: view state, layer, tooltip, st.pydeck_chart
Render ==
    /\ page = "map" /\ pc = "render"
    /\ IF tooltip_formats
       THEN pc' = "done" /\ outcome' = "rendered" /\ UNCHANGED <<exc, message>>
       ELSE Raise("KeyError")
    /\ UNCHANGED <<hvars, page, exists, workbook, appvars, mapvars>>

Next ==
    \/ AppLoad \/ Sidebar \/ Filter \/ Metrics \/ Reorder \/ Download
    \/ TokenGate \/ MapLoad \/ SelectSheet \/ CountySelect \/ NumericGate
    \/ Geocode \/ GeoGate \/ Render

Spec == Init /\ [][Next]_vars

(***************************************************************************)
(* Claims about the page runs (checked under Spec).                        *)
(***************************************************************************)
\* search_records has returned in this run of app.py
Searched ==
    /\ page = "app"
    /\ \/ pc \in {"metrics", "reorder", "download"}
       \/ pc = "done" /\ outcome = "ok"
       \/ pc = "done" /\ exc = "KeyError"

\* f has the columns of d and, in d's order, the rows of d at some row set
IsSubFrame(f, d) ==
    /\ Len(f.cols) = Len(d.cols)
    /\ \A i \in DOMAIN d.cols :
          f.cols[i].name = d.cols[i].name /\ f.cols[i].dtype = d.cols[i].dtype
    /\ \E K \in SUBSET (1..d.n) :
          /\ f.n = Cardinality(K)
          /\ \A i \in DOMAIN d.cols : f.cols[i].vals = FilterSeq(d.cols[i].vals, K)

\* C3: filtering is a subset of the input: search_records returns rows of
\* the input only, each at most once, in the input's order, with the same
\* columns and unchanged cells, for any terms and either regex setting.
C3_FilterIsSubset == Searched => IsSubFrame(filtered, DATA)

C3_Witness ==
    Searched /\ regex_mode /\ filtered.n > 0 /\ filtered.n < DATA.n

\* the rows in which a text column holds a value containing a term,
\* letter case ignored
RowsHoldingTerm(d, ts) ==
    {r \in 1..d.n : \E i \in DOMAIN d.cols : \E j \in DOMAIN ts :
        /\ d.cols[i].dtype = "object"
        /\ d.cols[i].vals[r].k = "str"
        /\ Contains(Lower(d.cols[i].vals[r].s), Lower(ts[j]))}

\* C4: in plain mode search_records returns exactly the rows in which some
\* text column holds a value containing some term as a substring, compared
\* case-insensitively; none for an empty term list; null cells and the
\* non-text derived columns never make a row match.
C4_PlainSearchExact ==
    (Searched /\ ~regex_mode) =>
        /\ filtered.n = Cardinality(RowsHoldingTerm(DATA, terms))
        /\ Len(filtered.cols) = Len(DATA.cols)
        /\ \A i \in DOMAIN DATA.cols :
              filtered.cols[i].vals = FilterSeq(DATA.cols[i].vals, RowsHoldingTerm(DATA, terms))
        /\ terms = <<>> => filtered.n = 0

C4_Witness ==
    /\ Searched /\ ~regex_mode
    /\ terms = << <<"I", "B", "M">> >>
    /\ filtered.n > 1 /\ filtered.n < DATA.n
    /\ \E i \in DOMAIN filtered.cols : \E r \in 1..filtered.n :
          filtered.cols[i].vals[r] = Str(<<"f", "o", "r", " ", "i", "b", "m">>)

PrefIndex(c) == CHOOSE i \in DOMAIN PREFERRED_ORDER : PREFERRED_ORDER[i] = c

\* C7: the table handed to to_excel_bytes has the rows of the search result
\* and its columns, each once: ordered_cols is a permutation of
\* filtered.columns, the PREFERRED_ORDER columns first in that order, the
\* others after them in their original relative order.
C7_ExportIsFilteredView ==
    (page = "app" /\ outcome = "ok") =>
        /\ exported.n = filtered.n
        /\ ColumnLabels(exported) = ordered_cols
        /\ \A i \in DOMAIN ordered_cols :
              /\ Has(filtered, ordered_cols[i])
              /\ exported.cols[i].vals = Col(filtered, ordered_cols[i]).vals
        /\ Len(ordered_cols) = Len(filtered.cols)
        /\ {ordered_cols[i] : i \in DOMAIN ordered_cols} = Names(filtered)
        /\ \A i, j \in DOMAIN ordered_cols : i < j =>
              /\ ordered_cols[i] # ordered_cols[j]
              /\ ordered_cols[i] \notin Preferred => ordered_cols[j] \notin Preferred
              /\ (ordered_cols[i] \in Preferred /\ ordered_cols[j] \in Preferred)
                    => PrefIndex(ordered_cols[i]) < PrefIndex(ordered_cols[j])
              /\ (ordered_cols[i] \notin Preferred /\ ordered_cols[j] \notin Preferred)
                    => FirstPos(filtered, ordered_cols[i]) < FirstPos(filtered, ordered_cols[j])

C7_Witness ==
    /\ page = "app" /\ outcome = "ok"
    /\ exported.n > 0
    /\ ordered_cols # ColumnLabels(filtered)
    /\ \E i \in DOMAIN ordered_cols : ordered_cols[i] \notin Preferred

\* the table selected on the Map page has no numeric dollar column
LacksNumeric(d) == ~Has(d, "Total NYS Investment") /\ ~Has(d, "Total Exemptions")
\* ... no column to geocode from
LacksGeo(d) == ~HasZipCol(d) /\ ~Has(d, "County")

\* C5: on the Map page a run whose selected table lacks the numeric dollar
\* column, or lacks both a postal-code column and County, ends in the
\* warning-and-stop state, never in an unhandled exception.
C5_MissingColumnWarning ==
    (/\ page = "map" /\ pc = "done"
     /\ sheet_display # 0 /\ exc # "IndexError"
     /\ LacksNumeric(map_df) \/ LacksGeo(map_df))
        => outcome = "warning_stop" /\ message = "warning"

\* C6: a run of either page whose workbook file does not exist ends in a
\* warning shown to the user, not in an unhandled exception.
C6_FileNotFoundWarning ==
    (/\ pc = "done" /\ ~exists
     /\ page = "app" \/ (page = "map" /\ TokenOk(TOKEN)))
        => outcome = "warning_stop" /\ message = "warning"

\* C9: the gates of the Map page come in order before the render block: a
\* missing or malformed token stops the run with an error before the workbook
\* is loaded; the numeric gate and the geodata gate stop it with a warning;
\* the frame that reaches the render block has at least one row, every row
\* with lat and lon, and no message was shown in that run.
C9_GatesBeforeRender ==
    page = "map" =>
        /\ ~TokenOk(TOKEN) =>
              /\ pc \in {"token", "done"}
              /\ sheet_display = 0
              /\ pc = "done" => (outcome = "error_stop" /\ message = "error")
        /\ (pc \in {"geocode", "geodata", "render"} \/ outcome = "rendered") =>
              /\ TokenOk(TOKEN) /\ exists
              /\ ~LacksNumeric(map_df)
        /\ (pc = "render" \/ outcome = "rendered") =>
              /\ map_df.n >= 1
              /\ \A r \in 1..map_df.n :
                    notna(Col(map_df, "lat").vals[r]) /\ notna(Col(map_df, "lon").vals[r])
              /\ message = "none"
        /\ message # "none" => (pc = "done" /\ outcome \in {"error_stop", "warning_stop"})
        /\ (pc = "done" /\ outcome = "warning_stop") =>
              (LacksNumeric(map_df) \/ map_df.n = 0)

C9_Witness ==
    /\ page = "map" /\ pc = "render"
    /\ map_df.n >= 1
    /\ sheet_display = 3

DerivedColumns ==
    {"Total_Incentive", "Exemption_Total", "PILOT_Total", "State_Award_Total", "Is_MultiPhase"}

\* C10: for every workbook with at least one sheet the table load_data
\* returns holds Total_Incentive and the other derived columns (step 5 never
\* drops them), so the Total Incentive metric never misses its column.
C10_DerivedColumnsKept ==
    (page = "app" /\ exists /\ Len(workbook) >= 1 /\ pc # "load") =>
        /\ DerivedColumns \subseteq Names(DATA)
        /\ exc # "KeyError"

====
